---- MODULE Spec2Model ----
(***************************************************************************)
(* Model of the in-memory password manager (src/main.py).                  *)
(*                                                                         *)
(* The global _category_map is an insertion-ordered dict of category name  *)
(* -> inner dict, each inner dict an insertion-ordered dict of key ->      *)
(* KeyDTO object.  Inner dicts and KeyDTO objects are heap objects with an *)
(* identity: a handler that has fetched a reference keeps it while other   *)
(* handlers pop or replace the mapping that led to it.  The FastAPI        *)
(* handlers are plain `def` functions, which the framework runs on worker  *)
(* threads; every access to the shared dicts or to a shared KeyDTO is one  *)
(* step of the thread that makes it, and steps of different threads        *)
(* interleave freely (the code takes no lock).                             *)
(***************************************************************************)
EXTENDS Integers, Sequences, FiniteSets, TLC

VARIABLES
    category_map,   \* _category_map: sequence of [key |-> name, val |-> dict id]
    dicts,          \* heap of inner dicts: dict id -> sequence of [key, val |-> object id]
    objs,           \* heap of KeyDTO objects: object id -> KeyDTO record
    th,             \* per worker thread: the request it serves, its position and locals
    clock,          \* the wall clock read by datetime.now(), in ticks
    ever,           \* history: names of the categories that have ever been in _category_map
    budget          \* requests still to come in this run

vars == <<category_map, dicts, objs, th, clock, ever, budget>>

----------------------------------------------------------------------------
(* Bounds *)

\* Wall-clock ticks the model lets pass.
MaxClock == 2

\* Clock ticks per second: datetime.now() is finer than the "%S" of the format.
TicksPerSecond == 2

\* Requests received in one run of the concurrent specification.
MaxRequests == 4

\* Requests received in one run of the sequential specification.
MaxSeqRequests == 4

\* Requests received in one run of the category-routes specification.
MaxCatRequests == 6

\* Worker threads serving requests at the same time.
Threads == {1, 2}

\* The single worker of the sequential specification.
SeqThreads == {1}

\* Path parameters of the requests of the concurrent specification.
Categories == {"c1"}
Keys == {"k1"}

\* Path parameters of the requests of the sequential specification.
SeqCategories == {"c1", "c2"}
SeqKeys == {"k1", "k2"}

\* Path parameters of the requests of the category-routes specification.
CatCategories == {"c1", "c2", "c3"}

\* Request bodies (CredentialDTO): empty fields, and passwords of 12 and 13 characters.
SeqCredentials ==
    { [username |-> "",      password |-> ""],
      [username |-> "alice", password |-> "twelve_chars"],
      [username |-> "alice", password |-> "thirteen_char"] }

\* Request bodies of the concurrent specification.
Credentials ==
    { [username |-> "",      password |-> ""],
      [username |-> "alice", password |-> "thirteen_char"] }

----------------------------------------------------------------------------
(* Program constants *)

\* len(password) < 13 is weak
StrongLength == 13

HTTP_200_OK == 200
HTTP_201_CREATED == 201
HTTP_404_NOT_FOUND == 404
HTTP_409_CONFLICT == 409
\* An exception that escapes the handler (KeyError) is answered with status 500.
HTTP_500_INTERNAL_SERVER_ERROR == 500

----------------------------------------------------------------------------
(* Python dict, insertion ordered: a sequence of [key, val] without repeated keys *)

DictHas(d, k) == \E i \in DOMAIN d : d[i].key = k

DictGet(d, k) == d[CHOOSE i \in DOMAIN d : d[i].key = k].val

\* d[k] = v: an existing key keeps its position, a new key goes last
DictSet(d, k, v) ==
    IF DictHas(d, k)
    THEN [i \in DOMAIN d |-> IF d[i].key = k THEN [key |-> k, val |-> v] ELSE d[i]]
    ELSE Append(d, [key |-> k, val |-> v])

DictPopTest(e, k) == e.key # k

\* d.pop(k) of a present key
DictPop(d, k) == SelectSeq(d, LAMBDA e : DictPopTest(e, k))

\* list(d.keys())
DictKeys(d) == [i \in DOMAIN d |-> d[i].key]

DictVals(d) == { d[i].val : i \in DOMAIN d }

----------------------------------------------------------------------------
(* Pure parts of the repository *)

\* datetime.now().strftime("%d/%m/%Y, %H:%M:%S"): the clock cut to whole seconds.
\* The string is represented by the second it names.
Strftime(t) == t \div TicksPerSecond

\* Mutant: the threshold off by one (<= for <).
password_strength_off_by_one(password) ==
    IF Len(password) <= StrongLength THEN "weak" ELSE "strong"

\* "weak" if len(password) < 13 else "strong"
password_strength(password) ==
    IF Len(password) < StrongLength THEN "weak" ELSE "strong"

\* KeyDTO(username, password, created_at=now, updated_at=now, password_strength=...)
KeyDTO(username, password, now) ==
    [ username          |-> username,
      password          |-> password,
      created_at        |-> now,
      updated_at        |-> now,
      password_strength |-> password_strength(password),
      deleted           |-> FALSE ]   \* history: a delete_credential has popped this object

\* category in _category_map
category_exist(category) == DictHas(category_map, category)

\* A fresh heap identity: the least one not in use.
NewId(used) == CHOOSE i \in 1..(Cardinality(used) + 1) : i \notin used

\* Heap identities are names only.  The heap is kept in a normal form: the
\* objects are numbered in the order in which a walk from _category_map, then
\* from the threads' locals, first meets them.
RECURSIVE Flatten(_)
Flatten(ss) == IF ss = <<>> THEN <<>> ELSE Head(ss) \o Flatten(Tail(ss))

\* The number x gets in the walk `walk` (0 stays 0: no reference).
Rank(walk, x) ==
    IF x = 0 THEN 0
    ELSE LET first == CHOOSE i \in DOMAIN walk :
                          walk[i] = x /\ \A j \in 1..(i - 1) : walk[j] # x
         IN  Cardinality({ walk[j] : j \in 1..first } \ {0})

\* The object numbered n in the walk.
Unrank(walk, n) == CHOOSE x \in { walk[i] : i \in DOMAIN walk } : Rank(walk, x) = n

----------------------------------------------------------------------------
(* Worker threads *)

\* A worker with no request: no locals, no response.
Idle ==
    [ op |-> "none", pc |-> "idle", category |-> "none", key |-> "none",
      caller |-> "none",  \* the function that called key_exist / get_credential
      username |-> "", password |-> "",
      d |-> 0,            \* local reference to an inner dict (0: none)
      o |-> 0,            \* local reference to a KeyDTO (0: none)
      now |-> -1,         \* local `now`
      fresh |-> FALSE,    \* history: the category had never existed when the request came
      status |-> 0,       \* response status code (0: none yet)
      body |-> "none",    \* kind of response body: none, list, null, credential
      list |-> <<>>,      \* a list body
      popped |-> <<>>,    \* history: keys of what the handler's pop() returned
      r_username |-> "", r_password |-> "",
      r_created_at |-> -1, r_updated_at |-> -1, r_password_strength |-> "none" ]

\* A request as it arrives at a handler.
Request(op, category, key, credential) ==
    [Idle EXCEPT !.op = op, !.category = category, !.key = key,
                 !.username = credential.username, !.password = credential.password,
                 !.fresh = category \notin ever]

NoCredential == [username |-> "", password |-> ""]

\* The handler returns or raises: the locals die, the response stays.
Respond(r, status) ==
    [r EXCEPT !.pc = "done", !.status = status, !.caller = "none",
              !.d = 0, !.o = 0, !.now = -1]

\* raise HTTPException(status_code=...)
Raise(r, status) == Respond(r, status)

\* An uncaught KeyError
KeyError(r) == Respond(r, HTTP_500_INTERNAL_SERVER_ERROR)

\* The state after a step of thread t.  CPython frees an object when the last
\* reference to it goes: inner dicts and KeyDTOs that neither _category_map nor
\* a thread's local reaches leave the heap.
\* A step that leaves "idle" is a request arriving; it takes one of the budget.
Commit(t, r, cm, ds, os) ==
    LET th2   == [th EXCEPT ![t] = r]
        n     == Cardinality(DOMAIN th2)
        walkD == [i \in DOMAIN cm |-> cm[i].val] \o [x \in 1..n |-> th2[x].d]
        nD    == Cardinality({ walkD[i] : i \in DOMAIN walkD } \ {0})
        walkO == Flatten([i \in 1..nD |->
                            [j \in DOMAIN ds[Unrank(walkD, i)] |-> ds[Unrank(walkD, i)][j].val]])
                 \o [x \in 1..n |-> th2[x].o]
        nO    == Cardinality({ walkO[i] : i \in DOMAIN walkO } \ {0})
    IN  /\ th' = [x \in DOMAIN th2 |->
                    [th2[x] EXCEPT !.d = Rank(walkD, @), !.o = Rank(walkO, @)]]
        /\ category_map' = [i \in DOMAIN cm |-> [cm[i] EXCEPT !.val = Rank(walkD, @)]]
        /\ dicts' = [i \in 1..nD |->
                       LET d == ds[Unrank(walkD, i)]
                       IN  [j \in DOMAIN d |-> [d[j] EXCEPT !.val = Rank(walkO, @)]]]
        /\ objs' = [i \in 1..nO |-> os[Unrank(walkO, i)]]
        /\ ever' = ever \cup { cm[i].key : i \in DOMAIN cm }
        /\ th[t].pc = "idle" => budget > 0
        /\ budget' = IF th[t].pc = "idle" THEN budget - 1 ELSE budget
        /\ UNCHANGED clock

\* A step of thread t that writes nothing shared.
Local(t, r) == Commit(t, r, category_map, dicts, objs)

----------------------------------------------------------------------------
Init ==
    /\ category_map = <<>>
    /\ dicts = <<>>
    /\ objs = <<>>
    /\ th = [t \in Threads |-> Idle]
    /\ clock = 0
    /\ ever = {}
    /\ budget = MaxRequests

\* Time passes.
Tick ==
    /\ clock < MaxClock
    /\ clock' = clock + 1
    /\ UNCHANGED <<category_map, dicts, objs, th, ever, budget>>

\* The response has been sent; the worker takes the next request.
Return(t) ==
    /\ th[t].pc = "done"
    /\ Local(t, Idle)

----------------------------------------------------------------------------
(* Category handlers *)

\* Mutant: the names are returned sorted, not in the dict's order.
get_categories_sorted(t) ==
    /\ th[t].pc = "idle"
    /\ LET r == Request("get_categories", "none", "none", NoCredential)
       IN  Local(t, [Respond(r, HTTP_200_OK) EXCEPT
                        !.body = "list",
                        !.list = SelectSeq(<<"c1", "c2", "c3">>,
                                           LAMBDA c : DictHas(category_map, c))])

\* GET /  (get_categories -> InMemoryStorage.get_categories)
get_categories(t) ==
    /\ th[t].pc = "idle"
    /\ LET r == Request("get_categories", "none", "none", NoCredential)
       IN  Local(t, [Respond(r, HTTP_200_OK) EXCEPT
                        !.body = "list", !.list = DictKeys(category_map)])

\* Mutant: create_category without its category_exist test.
create_categories_unchecked(t, c) ==
    /\ th[t].pc = "idle"
    /\ Local(t, [Request("create_categories", c, "none", NoCredential) EXCEPT
                    !.pc = "create_category"])

\* PUT /{category_name}: create_categories calls create_category, which
\* first asks category_exist
create_categories(t, c) ==
    /\ th[t].pc = "idle"
    /\ LET r == Request("create_categories", c, "none", NoCredential)
       IN  IF category_exist(c)
           THEN Local(t, Raise(r, HTTP_409_CONFLICT))
           ELSE Local(t, [r EXCEPT !.pc = "create_category"])

\* Mutant: the map is rebound to one holding the new category alone
\* (_category_map = {category: {}}).
create_category_resets(t) ==
    /\ th[t].pc = "create_category"
    /\ LET r  == th[t]
           id == NewId(DOMAIN dicts)
       IN  Commit(t, Respond(r, HTTP_201_CREATED),
                  <<[key |-> r.category, val |-> id]>>,
                  [d \in DOMAIN dicts \cup {id} |-> IF d = id THEN <<>> ELSE dicts[d]],
                  objs)

\* create_category: _category_map[category] = {}; return True
create_category(t) ==
    /\ th[t].pc = "create_category"
    /\ LET r  == th[t]
           id == NewId(DOMAIN dicts)
       IN  Commit(t, Respond(r, HTTP_201_CREATED),
                  DictSet(category_map, r.category, id),
                  [d \in DOMAIN dicts \cup {id} |-> IF d = id THEN <<>> ELSE dicts[d]],
                  objs)

\* Mutant: the handler calls repo.get_category without its own category_exist.
get_category_unchecked(t, c) ==
    /\ th[t].pc = "idle"
    /\ Local(t, [Request("get_category", c, "none", NoCredential) EXCEPT
                    !.pc = "get_category_exist"])

\* GET /{category_name}: the handler's own category_exist
get_category(t, c) ==
    /\ th[t].pc = "idle"
    /\ LET r == Request("get_category", c, "none", NoCredential)
       IN  IF ~category_exist(c)
           THEN Local(t, Raise(r, HTTP_404_NOT_FOUND))
           ELSE Local(t, [r EXCEPT !.pc = "get_category_exist"])

\* InMemoryStorage.get_category: its category_exist; None when absent
get_category_exist(t) ==
    /\ th[t].pc = "get_category_exist"
    /\ LET r == th[t]
       IN  IF ~category_exist(r.category)
           THEN Local(t, [Respond(r, HTTP_200_OK) EXCEPT !.body = "null"])
           ELSE Local(t, [r EXCEPT !.pc = "get_category_lookup"])

\* InMemoryStorage.get_category: _category_map[category]
get_category_lookup(t) ==
    /\ th[t].pc = "get_category_lookup"
    /\ LET r == th[t]
       IN  IF ~category_exist(r.category)
           THEN Local(t, KeyError(r))
           ELSE Local(t, [r EXCEPT !.pc = "get_category_keys",
                                   !.d = DictGet(category_map, r.category)])

\* InMemoryStorage.get_category: list(....keys())
get_category_keys(t) ==
    /\ th[t].pc = "get_category_keys"
    /\ LET r == th[t]
       IN  Local(t, [Respond(r, HTTP_200_OK) EXCEPT
                        !.body = "list", !.list = DictKeys(dicts[r.d])])

\* DELETE /{category_name}: delete_category's category_exist
delete_category(t, c) ==
    /\ th[t].pc = "idle"
    /\ LET r == Request("delete_category", c, "none", NoCredential)
       IN  IF ~category_exist(c)
           THEN Local(t, Raise(r, HTTP_404_NOT_FOUND))
           ELSE Local(t, [r EXCEPT !.pc = "delete_category_pop"])

\* Mutant: the category is emptied (_category_map[category] = {}), not popped.
delete_category_pop_empties(t) ==
    /\ th[t].pc = "delete_category_pop"
    /\ LET r == th[t]
       IN  IF ~category_exist(r.category)
           THEN Local(t, KeyError(r))
           ELSE Commit(t, [Respond(r, HTTP_200_OK) EXCEPT
                              !.popped = DictKeys(dicts[DictGet(category_map, r.category)])],
                       category_map,
                       [dicts EXCEPT ![DictGet(category_map, r.category)] = <<>>], objs)

\* delete_category: _category_map.pop(category); return True
delete_category_pop(t) ==
    /\ th[t].pc = "delete_category_pop"
    /\ LET r == th[t]
       IN  IF ~category_exist(r.category)
           THEN Local(t, KeyError(r))
           ELSE Commit(t, [Respond(r, HTTP_200_OK) EXCEPT
                              !.popped = DictKeys(dicts[DictGet(category_map, r.category)])],
                       DictPop(category_map, r.category), dicts, objs)

----------------------------------------------------------------------------
(* Credential handlers *)

\* Mutant: a KeyDTO whose username and password are both empty counts as falsy,
\* as an empty container would.
Truthy_empty_fields_falsy(ref) ==
    /\ ref # 0
    /\ (objs[ref].username # "" \/ objs[ref].password # "")

\* bool(x) of what get_credential returned: {} (reference 0) is falsy; a KeyDTO
\* is a pydantic model, which defines neither __bool__ nor __len__, and is
\* truthy whatever its fields hold.
Truthy(ref) == ref # 0

\* get_credential has returned `ref` to its caller: update_credential (line 129)
\* or the GET handler (line 260).
get_credential_return(r, ref) ==
    IF r.op = "create_credentials"
    THEN IF ~Truthy(ref)
         THEN Respond(r, HTTP_201_CREATED)        \* update_credential returns False, unused
         ELSE [r EXCEPT !.pc = "update_now", !.o = ref, !.d = 0, !.caller = "none"]
    ELSE IF ~Truthy(ref)
         THEN Raise(r, HTTP_404_NOT_FOUND)
         ELSE [r EXCEPT !.pc = "read_created_at", !.o = ref, !.d = 0, !.caller = "none"]

\* key_exist has returned `found` to its caller.
key_exist_return(r, found) ==
    CASE r.caller = "create_credentials" ->
            IF found
            THEN [r EXCEPT !.pc = "key_exist", !.caller = "get_credential", !.d = 0]
            ELSE [r EXCEPT !.pc = "create_now", !.caller = "none", !.d = 0]
      [] r.caller = "get_credential" ->
            IF found
            THEN [r EXCEPT !.pc = "get_credential_lookup", !.d = 0]
            ELSE get_credential_return(r, 0)
      [] r.caller = "delete_credential" ->
            IF found
            THEN [r EXCEPT !.pc = "delete_lookup", !.caller = "none", !.d = 0]
            ELSE Raise(r, HTTP_404_NOT_FOUND)

\* key_exist, line 78: if not self.category_exist(category): return False
key_exist_enter(r) ==
    IF ~category_exist(r.category)
    THEN key_exist_return(r, FALSE)
    ELSE [r EXCEPT !.pc = "key_exist_lookup"]

\* Mutant: the handler without its category_exist test.
create_credentials_unchecked(t, c, k, credential) ==
    /\ th[t].pc = "idle"
    /\ Local(t, [Request("create_credentials", c, k, credential) EXCEPT
                    !.pc = "key_exist", !.caller = "create_credentials"])

\* PUT /{category_name}/{key}: the handler's category_exist
create_credentials(t, c, k, credential) ==
    /\ th[t].pc = "idle"
    /\ LET r == Request("create_credentials", c, k, credential)
       IN  IF ~category_exist(c)
           THEN Local(t, Raise(r, HTTP_404_NOT_FOUND))
           ELSE Local(t, [r EXCEPT !.pc = "key_exist", !.caller = "create_credentials"])

\* DELETE /{category_name}/{key}: delete_credential calls key_exist
delete_credenials(t, c, k) ==
    /\ th[t].pc = "idle"
    /\ LET r == Request("delete_credenials", c, k, NoCredential)
       IN  Local(t, key_exist_enter([r EXCEPT !.caller = "delete_credential"]))

\* GET /{category_name}/{key}: InMemoryStorage.get_credential calls key_exist
get_credential(t, c, k) ==
    /\ th[t].pc = "idle"
    /\ LET r == Request("get_credential", c, k, NoCredential)
       IN  Local(t, key_exist_enter([r EXCEPT !.caller = "get_credential"]))

\* key_exist called later in a handler: its category_exist
key_exist(t) ==
    /\ th[t].pc = "key_exist"
    /\ Local(t, key_exist_enter(th[t]))

\* key_exist, line 80: _category_map[category]
key_exist_lookup(t) ==
    /\ th[t].pc = "key_exist_lookup"
    /\ LET r == th[t]
       IN  IF ~category_exist(r.category)
           THEN Local(t, KeyError(r))
           ELSE Local(t, [r EXCEPT !.pc = "key_exist_in",
                                   !.d = DictGet(category_map, r.category)])

\* key_exist, line 80: key in ...
key_exist_in(t) ==
    /\ th[t].pc = "key_exist_in"
    /\ LET r == th[t]
       IN  Local(t, key_exist_return(r, DictHas(dicts[r.d], r.key)))

\* get_credential, line 125: _category_map[category]
get_credential_lookup(t) ==
    /\ th[t].pc = "get_credential_lookup"
    /\ LET r == th[t]
       IN  IF ~category_exist(r.category)
           THEN Local(t, KeyError(r))
           ELSE Local(t, [r EXCEPT !.pc = "get_credential_item",
                                   !.d = DictGet(category_map, r.category)])

\* get_credential, line 125: ...[key]
get_credential_item(t) ==
    /\ th[t].pc = "get_credential_item"
    /\ LET r == th[t]
       IN  IF ~DictHas(dicts[r.d], r.key)
           THEN Local(t, KeyError(r))
           ELSE Local(t, get_credential_return(r, DictGet(dicts[r.d], r.key)))

\* create_credential, line 112: now = datetime.now().strftime(...)
create_now(t) ==
    /\ th[t].pc = "create_now"
    /\ Local(t, [th[t] EXCEPT !.pc = "create_lookup", !.now = Strftime(clock)])

\* create_credential, line 113: the KeyDTO is built, then _category_map[category]
create_lookup(t) ==
    /\ th[t].pc = "create_lookup"
    /\ LET r == th[t]
       IN  IF ~category_exist(r.category)
           THEN Local(t, KeyError(r))
           ELSE Local(t, [r EXCEPT !.pc = "create_store",
                                   !.d = DictGet(category_map, r.category)])

\* create_credential, line 113: ...[key] = KeyDTO(...)
create_store(t) ==
    /\ th[t].pc = "create_store"
    /\ LET r  == th[t]
           id == NewId(DOMAIN objs)
       IN  Commit(t, Respond(r, HTTP_201_CREATED),
                  category_map,
                  [dicts EXCEPT ![r.d] = DictSet(@, r.key, id)],
                  [o \in DOMAIN objs \cup {id} |->
                      IF o = id THEN KeyDTO(r.username, r.password, r.now) ELSE objs[o]])

\* update_credential, line 132: now = datetime.now().strftime(...)
update_now(t) ==
    /\ th[t].pc = "update_now"
    /\ Local(t, [th[t] EXCEPT !.pc = "update_username", !.now = Strftime(clock)])

\* update_credential, line 133: old_credential.username = username
update_username(t) ==
    /\ th[t].pc = "update_username"
    /\ LET r == th[t]
       IN  Commit(t, [r EXCEPT !.pc = "update_password"], category_map, dicts,
                  [objs EXCEPT ![r.o].username = r.username])

\* update_credential, line 134: old_credential.password = password
update_password(t) ==
    /\ th[t].pc = "update_password"
    /\ LET r == th[t]
       IN  Commit(t, [r EXCEPT !.pc = "update_updated_at"], category_map, dicts,
                  [objs EXCEPT ![r.o].password = r.password])

\* Mutant: the update stamps the wrong field (old_credential.created_at = now).
update_updated_at_writes_created_at(t) ==
    /\ th[t].pc = "update_updated_at"
    /\ LET r == th[t]
       IN  Commit(t, [r EXCEPT !.pc = "update_password_strength"], category_map, dicts,
                  [objs EXCEPT ![r.o].created_at = r.now])

\* Mutant: the update leaves updated_at as it was.
update_updated_at_skipped(t) ==
    /\ th[t].pc = "update_updated_at"
    /\ Local(t, [th[t] EXCEPT !.pc = "update_password_strength"])

\* Mutant: the update stamps created_at as well.
update_updated_at_and_created_at(t) ==
    /\ th[t].pc = "update_updated_at"
    /\ LET r == th[t]
       IN  Commit(t, [r EXCEPT !.pc = "update_password_strength"], category_map, dicts,
                  [objs EXCEPT ![r.o].updated_at = r.now, ![r.o].created_at = r.now])

\* update_credential, line 135: old_credential.updated_at = now
update_updated_at(t) ==
    /\ th[t].pc = "update_updated_at"
    /\ LET r == th[t]
       IN  Commit(t, [r EXCEPT !.pc = "update_password_strength"], category_map, dicts,
                  [objs EXCEPT ![r.o].updated_at = r.now])

\* update_credential, line 136: old_credential.password_strength = ...
update_password_strength(t) ==
    /\ th[t].pc = "update_password_strength"
    /\ LET r == th[t]
       IN  Commit(t, [r EXCEPT !.pc = "update_lookup"], category_map, dicts,
                  [objs EXCEPT ![r.o].password_strength = password_strength(r.password)])

\* update_credential, line 137: _category_map[category]
update_lookup(t) ==
    /\ th[t].pc = "update_lookup"
    /\ LET r == th[t]
       IN  IF ~category_exist(r.category)
           THEN Local(t, KeyError(r))
           ELSE Local(t, [r EXCEPT !.pc = "update_store",
                                   !.d = DictGet(category_map, r.category)])

\* update_credential, line 137: ...[key] = old_credential; return True
update_store(t) ==
    /\ th[t].pc = "update_store"
    /\ LET r == th[t]
       IN  Commit(t, Respond(r, HTTP_201_CREATED), category_map,
                  [dicts EXCEPT ![r.d] = DictSet(@, r.key, r.o)], objs)

\* delete_credential, line 144: _category_map[category]
delete_lookup(t) ==
    /\ th[t].pc = "delete_lookup"
    /\ LET r == th[t]
       IN  IF ~category_exist(r.category)
           THEN Local(t, KeyError(r))
           ELSE Local(t, [r EXCEPT !.pc = "delete_pop",
                                   !.d = DictGet(category_map, r.category)])

\* Mutant: the whole inner dict is cleared, not one key popped.
delete_pop_clears(t) ==
    /\ th[t].pc = "delete_pop"
    /\ LET r == th[t]
       IN  IF ~DictHas(dicts[r.d], r.key)
           THEN Local(t, KeyError(r))
           ELSE Commit(t, [Respond(r, HTTP_200_OK) EXCEPT !.popped = <<r.key>>],
                       category_map, [dicts EXCEPT ![r.d] = <<>>], objs)

\* delete_credential, line 144: ....pop(key); return True
delete_pop(t) ==
    /\ th[t].pc = "delete_pop"
    /\ LET r == th[t]
       IN  IF ~DictHas(dicts[r.d], r.key)
           THEN Local(t, KeyError(r))
           ELSE Commit(t, [Respond(r, HTTP_200_OK) EXCEPT !.popped = <<r.key>>],
                       category_map,
                       [dicts EXCEPT ![r.d] = DictPop(@, r.key)],
                       [objs EXCEPT ![DictGet(dicts[r.d], r.key)].deleted = TRUE])

\* GET handler, line 265: the X-PM-Created-At header
read_created_at(t) ==
    /\ th[t].pc = "read_created_at"
    /\ LET r == th[t]
       IN  Local(t, [r EXCEPT !.pc = "read_updated_at",
                              !.r_created_at = objs[r.o].created_at])

\* GET handler, line 266: the X-PM-Updated-At header
read_updated_at(t) ==
    /\ th[t].pc = "read_updated_at"
    /\ LET r == th[t]
       IN  Local(t, [r EXCEPT !.pc = "read_password_strength",
                              !.r_updated_at = objs[r.o].updated_at])

\* GET handler, line 267: the X-PM-Password-Strength header
read_password_strength(t) ==
    /\ th[t].pc = "read_password_strength"
    /\ LET r == th[t]
       IN  Local(t, [r EXCEPT !.pc = "read_username",
                              !.r_password_strength = objs[r.o].password_strength])

\* GET handler, line 270: credential.username
read_username(t) ==
    /\ th[t].pc = "read_username"
    /\ LET r == th[t]
       IN  Local(t, [r EXCEPT !.pc = "read_password",
                              !.r_username = objs[r.o].username])

\* GET handler, line 270: credential.password; the CredentialDTO is returned
read_password(t) ==
    /\ th[t].pc = "read_password"
    /\ LET r == th[t]
       IN  Local(t, [Respond(r, HTTP_200_OK) EXCEPT
                        !.body = "credential", !.r_password = objs[r.o].password])

----------------------------------------------------------------------------
(* Specifications *)

\* Idle worker t receives a request, its path drawn from categories Cs and
\* keys Ks and its body from Bs, and runs its handler to the first shared access.
Receive(t, Cs, Ks, Bs) ==
    \/ get_categories(t)
    \/ \E c \in Cs : create_categories(t, c)
    \/ \E c \in Cs : get_category(t, c)
    \/ \E c \in Cs : delete_category(t, c)
    \/ \E c \in Cs, k \in Ks, credential \in Bs : create_credentials(t, c, k, credential)
    \/ \E c \in Cs, k \in Ks : delete_credenials(t, c, k)
    \/ \E c \in Cs, k \in Ks : get_credential(t, c, k)

\* The next step of the handler worker t is running.
Step(t) ==
    \/ create_category(t)
    \/ get_category_exist(t)
    \/ get_category_lookup(t)
    \/ get_category_keys(t)
    \/ delete_category_pop(t)
    \/ key_exist(t)
    \/ key_exist_lookup(t)
    \/ key_exist_in(t)
    \/ get_credential_lookup(t)
    \/ get_credential_item(t)
    \/ create_now(t)
    \/ create_lookup(t)
    \/ create_store(t)
    \/ update_now(t)
    \/ update_username(t)
    \/ update_password(t)
    \/ update_updated_at(t)
    \/ update_password_strength(t)
    \/ update_lookup(t)
    \/ update_store(t)
    \/ delete_lookup(t)
    \/ delete_pop(t)
    \/ read_created_at(t)
    \/ read_updated_at(t)
    \/ read_password_strength(t)
    \/ read_username(t)
    \/ read_password(t)
    \/ Return(t)

\* Requests served concurrently by the worker threads.
Next ==
    \/ Tick
    \/ \E t \in Threads : Receive(t, Categories, Keys, Credentials) \/ Step(t)

Spec == Init /\ [][Next]_vars

\* Requests served one after the other by a single worker.
InitSeq ==
    /\ category_map = <<>>
    /\ dicts = <<>>
    /\ objs = <<>>
    /\ th = [t \in SeqThreads |-> Idle]
    /\ clock = 0
    /\ ever = {}
    /\ budget = MaxSeqRequests

NextSeq ==
    \/ Tick
    \/ \E t \in SeqThreads : Receive(t, SeqCategories, SeqKeys, SeqCredentials) \/ Step(t)

SpecSeq == InitSeq /\ [][NextSeq]_vars

\* The category routes (GET /, PUT and DELETE /{category_name}) served one
\* after the other by a single worker.
InitCategories ==
    /\ category_map = <<>>
    /\ dicts = <<>>
    /\ objs = <<>>
    /\ th = [t \in SeqThreads |-> Idle]
    /\ clock = 0
    /\ ever = {}
    /\ budget = MaxCatRequests

NextCategories ==
    \E t \in SeqThreads :
        \/ get_categories(t)
        \/ \E c \in CatCategories : create_categories(t, c)
        \/ \E c \in CatCategories : delete_category(t, c)
        \/ create_category(t)
        \/ delete_category_pop(t)
        \/ Return(t)

SpecCategories == InitCategories /\ [][NextCategories]_vars

----------------------------------------------------------------------------
(* What a state holds, for the properties below *)

\* Entry (category, key) is in the store.
EntryPresent(category, key) ==
    /\ category_exist(category)
    /\ DictHas(dicts[DictGet(category_map, category)], key)

\* The KeyDTO stored at (category, key).
Entry(category, key) == objs[DictGet(dicts[DictGet(category_map, category)], key)]

\* The store without the heap identities: the categories in order, each with
\* its entries in order.
StoreValue ==
    [i \in DOMAIN category_map |->
        [ name    |-> category_map[i].key,
          entries |-> [j \in DOMAIN dicts[category_map[i].val] |->
                          [ key |-> dicts[category_map[i].val][j].key,
                            dto |-> objs[dicts[category_map[i].val][j].val] ]] ]]

\* Store value `store` without category c.
WithoutCategory(store, c) == SelectSeq(store, LAMBDA e : e.name # c)

\* Store value `store` without entry (c, k).
WithoutEntry(store, c, k) ==
    [i \in DOMAIN store |->
        IF store[i].name = c
        THEN [store[i] EXCEPT !.entries = SelectSeq(@, LAMBDA e : e.key # k)]
        ELSE store[i]]

\* No handler is in the middle of its work.
Quiescent == \A t \in DOMAIN th : th[t].pc \in {"idle", "done"}

\* Thread t has answered a request `op`.
Answered(t, op) == th[t].pc = "done" /\ th[t].op = op

\* In this step thread t takes the step it is at when at `pc`: every step moves
\* its thread to another position.  (A step of another thread can renumber the
\* heap and with it t's references, so t's record changing is no sign of it.)
Takes(t, pc) == th[t].pc = pc /\ th'[t].pc # pc

\* In this step request `op` arrives at thread t.
Arrives(t, op) == th[t].pc = "idle" /\ th'[t].op = op

----------------------------------------------------------------------------
(* Concurrent requests (Spec) *)

\* C1: when create_category(c) is called from several threads for a name c that
\* has never existed, exactly one call succeeds (201), every other call fails
\* (409), and the store then holds exactly one category c.
C1_ExactlyOneCreateSucceeds ==
    \A t, u \in DOMAIN th :
        ( /\ t # u
          /\ Answered(t, "create_categories") /\ Answered(u, "create_categories")
          /\ th[t].category = th[u].category
          /\ th[t].fresh /\ th[u].fresh )
        => /\ {th[t].status, th[u].status} = {HTTP_201_CREATED, HTTP_409_CONFLICT}
           /\ Cardinality({ i \in DOMAIN category_map :
                                category_map[i].key = th[t].category }) = 1

\* C2: no update is lost to a racing category creation: an entry that is in the
\* store stays there until a delete_entry on it or a delete_category on its
\* category succeeds.
C2_EntryStaysUntilDeleted ==
    [][ \A c \in Categories, k \in Keys :
          (EntryPresent(c, k) /\ ~EntryPresent(c, k)')
          => \E t \in DOMAIN th :
                /\ th[t].category = c
                /\ th'[t].status = HTTP_200_OK
                /\ \/ Takes(t, "delete_category_pop")
                   \/ Takes(t, "delete_pop") /\ th[t].key = k ]_vars

\* C3: a delete_entry racing an upsert_entry on an existing entry is serialized:
\* an entry whose delete_entry returned success is never written back into the
\* store by an update that had read it before the delete.
C3_DeletedEntryNeverWrittenBack ==
    \A i \in DOMAIN category_map :
        \A j \in DOMAIN dicts[category_map[i].val] :
            ~objs[dicts[category_map[i].val][j].val].deleted

\* C4: no operation ends in an unhandled fault: upsert_entry, get_entry,
\* delete_entry and list_entries are never ended by an error raised from looking
\* up a category removed since the operation's existence check.
C4_NoUnhandledFault ==
    \A t \in DOMAIN th :
        th[t].op \in {"create_credentials", "get_credential", "delete_credenials", "get_category"}
        => th[t].status # HTTP_500_INTERNAL_SERVER_ERROR

----------------------------------------------------------------------------
(* Requests one after the other (SpecSeq) *)

\* C5: created_at is written once: over a series of upsert_entry calls on the
\* same (c, k) with no delete in between, created_at stays the timestamp the
\* first call took; an upsert on an existing entry overwrites username and
\* password and recomputes updated_at and password_strength, and leaves
\* created_at as it was.
C5_CreatedAtWrittenOnce ==
    [][ /\ \A c \in SeqCategories, k \in SeqKeys :
              (EntryPresent(c, k) /\ EntryPresent(c, k)')
              => Entry(c, k)'.created_at = Entry(c, k).created_at
        /\ \A t \in DOMAIN th :
              /\ Takes(t, "create_store")
                 => /\ EntryPresent(th[t].category, th[t].key)'
                    /\ Entry(th[t].category, th[t].key)'.created_at = th[t].now
                    /\ Entry(th[t].category, th[t].key)'.updated_at = th[t].now
              /\ Takes(t, "update_store")
                 => /\ EntryPresent(th[t].category, th[t].key)'
                    /\ Entry(th[t].category, th[t].key)'.username = th[t].username
                    /\ Entry(th[t].category, th[t].key)'.password = th[t].password
                    /\ Entry(th[t].category, th[t].key)'.updated_at = th[t].now
                    /\ Entry(th[t].category, th[t].key)'.password_strength
                          = (IF Len(th[t].password) < 13 THEN "weak" ELSE "strong")
      ]_vars

\* An upsert has updated an entry in a later second than the one that created
\* it: the two timestamps differ.
C5_Witness ==
    \E t \in DOMAIN th :
        /\ Answered(t, "create_credentials")
        /\ th[t].status = HTTP_201_CREATED
        /\ EntryPresent(th[t].category, th[t].key)
        /\ Entry(th[t].category, th[t].key).username = th[t].username
        /\ Entry(th[t].category, th[t].key).password = th[t].password
        /\ Entry(th[t].category, th[t].key).created_at
              < Entry(th[t].category, th[t].key).updated_at

\* C6: after any sequence of operations every entry in the store has
\* password_strength weak exactly when its stored password is shorter than 13
\* characters, and strong otherwise (12 is weak, 13 is strong), on the create
\* path and on the update path alike.
C6_StrengthFollowsPassword ==
    Quiescent =>
        \A c \in SeqCategories, k \in SeqKeys :
            EntryPresent(c, k) =>
                /\ Len(Entry(c, k).password) < 13 => Entry(c, k).password_strength = "weak"
                /\ Len(Entry(c, k).password) >= 13 => Entry(c, k).password_strength = "strong"

\* The store holds an entry of 12 characters and an entry of 13 characters
\* that an update wrote.
C6_Witness ==
    /\ Quiescent
    /\ \E c \in SeqCategories, k \in SeqKeys :
          /\ EntryPresent(c, k)
          /\ Len(Entry(c, k).password) = 12
    /\ \E c \in SeqCategories, k \in SeqKeys :
          /\ EntryPresent(c, k)
          /\ Len(Entry(c, k).password) = 13
          /\ Entry(c, k).created_at < Entry(c, k).updated_at

\* C7: upsert_entry on a category that does not exist answers 404 and leaves
\* the whole store unchanged: no category and no entry is created, and every
\* existing category and entry keeps its value.
C7_UpsertWithoutCategory ==
    [][ \A t \in DOMAIN th :
          (Arrives(t, "create_credentials") /\ ~category_exist(th'[t].category))
          => /\ th'[t].pc = "done"
             /\ th'[t].status = HTTP_404_NOT_FOUND
             /\ StoreValue' = StoreValue
      ]_vars

\* An upsert on an absent category was answered 404 while another category
\* holds an entry.
C7_Witness ==
    \E t \in DOMAIN th :
        /\ Answered(t, "create_credentials")
        /\ th[t].status = HTTP_404_NOT_FOUND
        /\ ~category_exist(th[t].category)
        /\ \E c \in SeqCategories, k \in SeqKeys : EntryPresent(c, k)

\* C8: create_category on an existing category fails (409) and changes nothing;
\* on an absent one it succeeds and adds the category, empty; the store never
\* holds a name twice.
C8_CreateExistingCategory ==
    [][ \A t \in DOMAIN th :
          /\ (Arrives(t, "create_categories") /\ category_exist(th'[t].category))
             => /\ th'[t].pc = "done"
                /\ th'[t].status = HTTP_409_CONFLICT
                /\ StoreValue' = StoreValue
          /\ (Arrives(t, "create_categories") /\ ~category_exist(th'[t].category))
             => /\ th'[t].pc = "create_category"
                /\ StoreValue' = StoreValue
          /\ Takes(t, "create_category")
             => /\ th'[t].status = HTTP_201_CREATED
                /\ StoreValue' = Append(StoreValue, [name |-> th[t].category, entries |-> <<>>])
                /\ \A i, j \in DOMAIN StoreValue' :
                      StoreValue'[i].name = StoreValue'[j].name => i = j
      ]_vars

\* A second create_category on a category that holds an entry was answered 409.
C8_Witness ==
    \E t \in DOMAIN th :
        /\ Answered(t, "create_categories")
        /\ th[t].status = HTTP_409_CONFLICT
        /\ \E k \in SeqKeys : EntryPresent(th[t].category, k)

\* C9: a successful delete_category removes the category with all its entries
\* in one step: afterwards the category does not exist and no (c, k) is in the
\* store, a get_entry on an absent category answers 404, and a category created
\* again is empty.
C9_DeleteCategoryCascades ==
    [][ \A t \in DOMAIN th :
          /\ Takes(t, "delete_category_pop")
             => /\ th'[t].status = HTTP_200_OK
                /\ ~category_exist(th[t].category)'
                /\ \A k \in SeqKeys : ~EntryPresent(th[t].category, k)'
                /\ StoreValue' = SelectSeq(StoreValue, LAMBDA e : e.name # th[t].category)
          /\ (Arrives(t, "get_credential") /\ ~category_exist(th'[t].category))
             => /\ th'[t].pc = "done"
                /\ th'[t].status = HTTP_404_NOT_FOUND
          /\ Takes(t, "create_category")
             => /\ category_exist(th[t].category)'
                /\ \A k \in SeqKeys : ~EntryPresent(th[t].category, k)'
      ]_vars

\* A category that held two entries has been deleted.
C9_Witness ==
    \E t \in DOMAIN th :
        /\ Answered(t, "delete_category")
        /\ th[t].status = HTTP_200_OK
        /\ Len(th[t].popped) = 2
        /\ ~category_exist(th[t].category)

\* C10: delete_entry on an existing entry succeeds and removes exactly that
\* entry (the category stays, its other entries and the other categories keep
\* their values); when the category or the key is absent it answers 404 and
\* changes nothing.
C10_DeleteEntry ==
    [][ \A t \in DOMAIN th :
          /\ Takes(t, "delete_pop")
             => /\ EntryPresent(th[t].category, th[t].key)
                /\ th'[t].status = HTTP_200_OK
                /\ category_exist(th[t].category)'
                /\ ~EntryPresent(th[t].category, th[t].key)'
                /\ StoreValue' =
                      [i \in DOMAIN StoreValue |->
                          IF StoreValue[i].name = th[t].category
                          THEN [StoreValue[i] EXCEPT
                                   !.entries = SelectSeq(@, LAMBDA e : e.key # th[t].key)]
                          ELSE StoreValue[i]]
          /\ (th'[t].op = "delete_credenials" /\ th'[t] # th[t] /\ th[t].pc # "delete_pop")
             => /\ StoreValue' = StoreValue
                /\ th'[t].pc = "done"
                   => /\ th'[t].status = HTTP_404_NOT_FOUND
                      /\ ~EntryPresent(th'[t].category, th'[t].key)
      ]_vars

\* An entry has been deleted from a category that keeps another entry.
C10_Witness ==
    \E t \in DOMAIN th :
        /\ Answered(t, "delete_credenials")
        /\ th[t].status = HTTP_200_OK
        /\ ~EntryPresent(th[t].category, th[t].key)
        /\ \E k \in SeqKeys : EntryPresent(th[t].category, k)

\* C11: get_entry does not take an entry whose fields are empty for an absent
\* one: a get_entry on an entry in the store answers 200 with the stored
\* username and password, also when both are "", and answers 404 only when the
\* category or the key is absent; an upsert_entry on an entry in the store,
\* empty fields or not, leaves the request's username and password in it.
C11_GetEntryFindsEmptyEntry ==
    \A t \in DOMAIN th :
        /\ Answered(t, "get_credential")
           => IF EntryPresent(th[t].category, th[t].key)
              THEN /\ th[t].status = HTTP_200_OK
                   /\ th[t].body = "credential"
                   /\ th[t].r_username = Entry(th[t].category, th[t].key).username
                   /\ th[t].r_password = Entry(th[t].category, th[t].key).password
              ELSE th[t].status = HTTP_404_NOT_FOUND
        /\ (Answered(t, "create_credentials") /\ th[t].status = HTTP_201_CREATED)
           => /\ EntryPresent(th[t].category, th[t].key)
              /\ Entry(th[t].category, th[t].key).username = th[t].username
              /\ Entry(th[t].category, th[t].key).password = th[t].password

\* A get_entry on an entry stored with username "" and password "" was
\* answered 200 with the two empty strings.
C11_Witness ==
    \E t \in DOMAIN th :
        /\ Answered(t, "get_credential")
        /\ th[t].status = HTTP_200_OK
        /\ th[t].body = "credential"
        /\ th[t].r_username = ""
        /\ th[t].r_password = ""
        /\ EntryPresent(th[t].category, th[t].key)

\* C12: existence and emptiness are told apart: a name that was never created,
\* or was deleted and not created again, does not exist, and list_entries on a
\* name that does not exist answers 404; list_entries on an existing category
\* answers 200 with exactly its current keys, each once, in the order the store
\* holds them: the empty list when it has no entries.
C12_ListEntries ==
    /\ \A c \in SeqCategories : c \notin ever => ~category_exist(c)
    /\ \A t \in DOMAIN th :
          /\ (Answered(t, "delete_category") /\ th[t].status = HTTP_200_OK)
             => ~category_exist(th[t].category)
          /\ Answered(t, "get_category")
             => IF ~category_exist(th[t].category)
                THEN th[t].status = HTTP_404_NOT_FOUND
                ELSE /\ th[t].status = HTTP_200_OK
                     /\ th[t].body = "list"
                     /\ th[t].list = DictKeys(dicts[DictGet(category_map, th[t].category)])
                     /\ \A k \in SeqKeys :
                           EntryPresent(th[t].category, k)
                           <=> Cardinality({ i \in DOMAIN th[t].list : th[t].list[i] = k }) = 1
                     /\ \A i \in DOMAIN th[t].list : th[t].list[i] \in SeqKeys

\* list_entries on a category that exists and holds no entry was answered 200
\* with the empty list.
C12_Witness ==
    \E t \in DOMAIN th :
        /\ Answered(t, "get_category")
        /\ th[t].status = HTTP_200_OK
        /\ th[t].body = "list"
        /\ th[t].list = <<>>
        /\ category_exist(th[t].category)
        /\ dicts[DictGet(category_map, th[t].category)] = <<>>

\* C13 (as claimed): every upsert_entry that updates an existing entry changes
\* updated_at to a timestamp strictly later than the one it had, however
\* closely the two upserts follow each other; a creating upsert sets
\* created_at = updated_at.
C13_UpdatedAtStrictlyLater ==
    [][ \A t \in DOMAIN th :
          /\ Takes(t, "update_updated_at")
             => Entry(th[t].category, th[t].key)'.updated_at
                   > Entry(th[t].category, th[t].key).updated_at
          /\ Takes(t, "create_store")
             => Entry(th[t].category, th[t].key)'.created_at
                   = Entry(th[t].category, th[t].key)'.updated_at
      ]_vars

\* C13 (amended): timestamps are whole seconds.  An upsert_entry that updates
\* an existing entry sets updated_at to the second in which it read the clock,
\* which is never earlier than the value updated_at had, and is later only when
\* the call reads the clock in a later second than the previous write did; a
\* creating upsert sets created_at = updated_at.
C13_UpdatedAtNotEarlier ==
    [][ \A t \in DOMAIN th :
          /\ Takes(t, "update_now") => th'[t].now = clock \div TicksPerSecond
          /\ Takes(t, "update_updated_at")
             => /\ Entry(th[t].category, th[t].key)'.updated_at = th[t].now
                /\ Entry(th[t].category, th[t].key)'.updated_at
                      >= Entry(th[t].category, th[t].key).updated_at
          /\ Takes(t, "create_store")
             => Entry(th[t].category, th[t].key)'.created_at
                   = Entry(th[t].category, th[t].key)'.updated_at
      ]_vars

\* An update has stamped an entry, part-way through a second, with the second
\* the entry was created in: updated_at is what it was.
C13_Witness ==
    \E t \in DOMAIN th :
        /\ th[t].op = "create_credentials"
        /\ th[t].pc = "update_password_strength"
        /\ EntryPresent(th[t].category, th[t].key)
        /\ Entry(th[t].category, th[t].key).updated_at = th[t].now
        /\ Entry(th[t].category, th[t].key).created_at = th[t].now
        /\ clock > th[t].now * TicksPerSecond

\* C17: each operation touches only its target.  Every step of upsert_entry or
\* delete_entry on (c, k) leaves the categories, their order, every other entry
\* of c and every entry of the other categories as they were; every step of
\* create_category or delete_category on c leaves every other category with
\* its entries as it was; list_categories, list_entries and get_entry, the
\* return of a response and the passing of time leave the whole store as it was.
C17_OnlyTargetTouched ==
    [][ /\ (\A t \in DOMAIN th : th'[t] = th[t]) => StoreValue' = StoreValue
        /\ \A t \in DOMAIN th :
              th'[t] # th[t]
              => LET r == IF th[t].pc = "idle" THEN th'[t] ELSE th[t]
                 IN  CASE th[t].pc = "done" -> StoreValue' = StoreValue
                       [] r.op \in {"get_categories", "get_category", "get_credential"} ->
                             StoreValue' = StoreValue
                       [] r.op \in {"create_categories", "delete_category"} ->
                             WithoutCategory(StoreValue', r.category)
                                = WithoutCategory(StoreValue, r.category)
                       [] r.op \in {"create_credentials", "delete_credenials"} ->
                             /\ DictKeys(category_map)' = DictKeys(category_map)
                             /\ WithoutEntry(StoreValue', r.category, r.key)
                                   = WithoutEntry(StoreValue, r.category, r.key)
      ]_vars

\* A category has been deleted while another category holds an entry.
C17_Witness ==
    \E t \in DOMAIN th :
        /\ Answered(t, "delete_category")
        /\ th[t].status = HTTP_200_OK
        /\ \E c \in SeqCategories \ {th[t].category}, k \in SeqKeys : EntryPresent(c, k)

----------------------------------------------------------------------------
(* The category routes, one request after the other (SpecCategories) *)

\* C14: list_categories returns exactly the existing categories, each once, in
\* insertion order: a successful create_category puts the name after all the
\* names that exist then (also a name that had existed before and was deleted),
\* a delete_category takes the name out and keeps the order of the others, no
\* other step changes the order, and list_categories answers 200 with the
\* names in that order, the empty sequence when there is none.
C14_ListCategoriesInsertionOrder ==
    [][ \A t \in DOMAIN th :
          /\ Takes(t, "create_category")
             => DictKeys(category_map)' = Append(DictKeys(category_map), th[t].category)
          /\ Takes(t, "delete_category_pop")
             => DictKeys(category_map)'
                   = SelectSeq(DictKeys(category_map), LAMBDA c : c # th[t].category)
          /\ (th'[t] # th[t] /\ th[t].pc \notin {"create_category", "delete_category_pop"})
             => DictKeys(category_map)' = DictKeys(category_map)
          /\ Arrives(t, "get_categories")
             => /\ th'[t].pc = "done"
                /\ th'[t].status = HTTP_200_OK
                /\ th'[t].body = "list"
                /\ th'[t].list = DictKeys(category_map)
                /\ \A c \in CatCategories :
                      Cardinality({ i \in DOMAIN th'[t].list : th'[t].list[i] = c })
                         = (IF category_exist(c) THEN 1 ELSE 0)
      ]_vars

\* list_categories was answered with two names in the order of their creation,
\* which is not the alphabetical one, a third category having been created and
\* deleted.
C14_Witness ==
    \E t \in DOMAIN th :
        /\ Answered(t, "get_categories")
        /\ th[t].status = HTTP_200_OK
        /\ th[t].list = <<"c3", "c1">>
        /\ "c2" \in ever

----------------------------------------------------------------------------
(* Requests served concurrently (Spec) *)

\* C15: two concurrent upsert_entry on the same absent (c, k) do not both act
\* as creations: one creates the entry and the other updates it, so an upsert
\* that creates never replaces an entry that is in the store, and the
\* created_at of the first creator is not reset.
C15_OneCreatorPerEntry ==
    [][ \A t \in DOMAIN th :
          ( /\ Takes(t, "create_store")
            /\ category_exist(th[t].category)
            /\ DictGet(category_map, th[t].category) = th[t].d )
          => ~EntryPresent(th[t].category, th[t].key)
      ]_vars

\* C16: a get_entry that runs while an upsert_entry updates the same entry
\* sees one consistent version of it: the password_strength it returns is the
\* classification of the password it returns.
C16_GetEntrySnapshot ==
    \A t \in DOMAIN th :
        (Answered(t, "get_credential") /\ th[t].status = HTTP_200_OK)
        => th[t].r_password_strength
              = (IF Len(th[t].r_password) < 13 THEN "weak" ELSE "strong")

\* C18: in every reachable state, whatever the interleaving of the requests
\* (the clock never goes backwards), every entry in the store has
\* created_at <= updated_at; the two are equal when the entry is created, and
\* the timestamps held at (c, k) change only by a step of an upsert_entry on
\* (c, k).
C18_CreatedNotAfterUpdated ==
    /\ [](\A c \in Categories, k \in Keys :
             EntryPresent(c, k) => Entry(c, k).created_at <= Entry(c, k).updated_at)
    /\ [][ /\ clock' >= clock
           /\ \A t \in DOMAIN th :
                 ( /\ Takes(t, "create_store")
                   /\ category_exist(th[t].category)
                   /\ DictGet(category_map, th[t].category) = th[t].d )
                 => /\ EntryPresent(th[t].category, th[t].key)'
                    /\ Entry(th[t].category, th[t].key)'.created_at
                          = Entry(th[t].category, th[t].key)'.updated_at
           /\ \A c \in Categories, k \in Keys :
                 ( /\ EntryPresent(c, k) /\ EntryPresent(c, k)'
                   /\ <<Entry(c, k).created_at, Entry(c, k).updated_at>>
                         # <<Entry(c, k)'.created_at, Entry(c, k)'.updated_at>> )
                 => \E t \in DOMAIN th :
                       /\ th[t].op = "create_credentials"
                       /\ th[t].category = c /\ th[t].key = k
                       /\ \/ Takes(t, "create_store")
                          \/ Takes(t, "update_updated_at")
                          \/ Takes(t, "update_store")
         ]_vars

\* An entry updated in a later second than it was created in is in the store
\* while both workers are in the middle of an upsert_entry on it.
C18_Witness ==
    /\ \E c \in Categories, k \in Keys :
          /\ EntryPresent(c, k)
          /\ Entry(c, k).created_at < Entry(c, k).updated_at
    /\ \A t \in DOMAIN th :
          /\ th[t].op = "create_credentials"
          /\ th[t].pc \notin {"idle", "done"}

====
